---- MODULE Spec2Model ----
(***************************************************************************)
(* Timetable ingestion pipeline of Momentum: the POST /api/ocr route (the  *)
(* extraction orchestrator with its vision adapter and static fallback)    *)
(* and the heuristic line parser parseOCRToTimetable of the client.        *)
(*                                                                         *)
(* Text is modelled by TLA+ strings; the character at position i of s is   *)
(* SubSeq(s, i, i).  JSON values are records [t, arr]: t is the JSON type  *)
(* and arr the elements when t = "arr" (<<>> otherwise).                   *)
(***************************************************************************)
EXTENDS Integers, Sequences, FiniteSets, TLC

VARIABLES
    pc,         \* position of the /ocr handler: "idle", "awaitVision", "responded"
    body,       \* req.body of the request being handled
    tesseract,  \* what the OCR engine collaborator yields for the request's image
    vision,     \* how the vision service call of this request ended
    calls,      \* the collaborators the handler invoked for this request
    status,     \* HTTP status of the response (0: none yet)
    result,     \* the `result` member of the response body
    ppc,        \* position of a parseOCRToTimetable call: "idle", "loop", "returned"
    pText,      \* its argument ocrText
    pLines,     \* its `lines`
    pIdx,       \* the number of lines the forEach has visited
    pEntries,   \* its `entries`
    reqs,       \* the /ocr requests in flight at once: for each, the handler's
                \* position, its locals and its response
    up,         \* the OCRUploader dialog: its state and its handleUpload call
    sc,         \* the OCRScanner component: its useState values
    scans       \* the processImage calls of the scanner: for each, its position,
                \* its interval timer and what it received

routeVars  == <<pc, body, tesseract, vision, calls, status, result>>
parserVars == <<ppc, pText, pLines, pIdx, pEntries>>
concVars   == <<reqs>>
uploaderVars == <<up>>
scannerVars  == <<sc, scans>>
notRoute   == <<parserVars, concVars, uploaderVars, scannerVars>>
notParser  == <<routeVars, concVars, uploaderVars, scannerVars>>
notConc    == <<routeVars, parserVars, uploaderVars, scannerVars>>
notUploader == <<routeVars, parserVars, concVars, scannerVars>>
notScanner  == <<routeVars, parserVars, concVars, uploaderVars>>

vars == <<routeVars, parserVars, concVars, uploaderVars, scannerVars>>

(***************************************************************************)
(* JSON values                                                             *)
(***************************************************************************)
Undefined == [t |-> "undefined", arr |-> <<>>]
JNull     == [t |-> "null",      arr |-> <<>>]
JStr      == [t |-> "str",       arr |-> <<>>]
JArr(a)   == [t |-> "arr",       arr |-> a]

\* JavaScript truthiness, as `||` tests it: undefined and null are falsy; a
\* non-empty string (JStr) and every array, the empty one too, are truthy.
Truthy(v) == v.t \in {"str", "arr"}

\* a || b
Or(a, b) == IF Truthy(a) THEN a ELSE b

IsArray(v) == v.t = "arr"

(***************************************************************************)
(* Entries                                                                 *)
(***************************************************************************)
Entry(d, s, e, ti, l) ==
    [day |-> d, startTime |-> s, endTime |-> e, title |-> ti, location |-> l]

FallbackEntrySet ==
    << Entry("Monday",    "09:00", "10:30", "Mathematics",        "Room 101"),
       Entry("Monday",    "11:00", "12:30", "Physics",            "Lab 3"),
       Entry("Tuesday",   "09:00", "10:30", "Computer Science",   "Room 205"),
       Entry("Wednesday", "13:00", "14:30", "Economics",          "Hall B"),
       Entry("Thursday",  "15:00", "16:30", "History",            "Room 110"),
       Entry("Friday",    "10:00", "11:30", "English Literature", "Room 302") >>

(***************************************************************************)
(* Characters and strings                                                  *)
(***************************************************************************)
Char(s, i) == SubSeq(s, i, i)

UpperAlpha == "ABCDEFGHIJKLMNOPQRSTUVWXYZ"
LowerAlpha == "abcdefghijklmnopqrstuvwxyz"
Digits     == {"0", "1", "2", "3", "4", "5", "6", "7", "8", "9"}
UpperSet   == {Char(UpperAlpha, i) : i \in 1..Len(UpperAlpha)}
LowerSet   == {Char(LowerAlpha, i) : i \in 1..Len(LowerAlpha)}

\* The en dash (U+2013) and the em dash (U+2014) of the source are written
\* "~" and "=" here: the module is ASCII, and no modelled text uses "~" or
\* "=" for anything else.
EnDash == "~"
EmDash == "="

\* \s, \d and \w of a JavaScript regular expression
SpaceChars == {" ", "\t", "\r", "\n", "\f"}
WordChars  == UpperSet \cup LowerSet \cup Digits \cup {"_"}

LowerMap == [c \in UpperSet |->
               Char(LowerAlpha, CHOOSE i \in 1..Len(UpperAlpha) : Char(UpperAlpha, i) = c)]
UpperMap == [c \in LowerSet |->
               Char(UpperAlpha, CHOOSE i \in 1..Len(LowerAlpha) : Char(LowerAlpha, i) = c)]

LowerChar(c) == IF c \in UpperSet THEN LowerMap[c] ELSE c
UpperChar(c) == IF c \in LowerSet THEN UpperMap[c] ELSE c

RECURSIVE toLowerCase(_)
toLowerCase(s) ==
    IF s = "" THEN "" ELSE LowerChar(Char(s, 1)) \o toLowerCase(SubSeq(s, 2, Len(s)))

RECURSIVE toUpperCase(_)
toUpperCase(s) ==
    IF s = "" THEN "" ELSE UpperChar(Char(s, 1)) \o toUpperCase(SubSeq(s, 2, Len(s)))

\* String.prototype.trim
RECURSIVE trimStart(_)
trimStart(s) ==
    IF s # "" /\ Char(s, 1) \in SpaceChars THEN trimStart(SubSeq(s, 2, Len(s))) ELSE s

RECURSIVE trimEnd(_)
trimEnd(s) ==
    IF s # "" /\ Char(s, Len(s)) \in SpaceChars
    THEN trimEnd(SubSeq(s, 1, Len(s) - 1)) ELSE s

trim(s) == trimEnd(trimStart(s))

\* String.prototype.split with a one-character separator
RECURSIVE split(_, _)
split(s, sep) ==
    IF \E i \in 1..Len(s) : Char(s, i) = sep
    THEN LET i == CHOOSE j \in 1..Len(s) :
                      /\ Char(s, j) = sep
                      /\ \A k \in 1..(j - 1) : Char(s, k) # sep
         IN  <<SubSeq(s, 1, i - 1)>> \o split(SubSeq(s, i + 1, Len(s)), sep)
    ELSE <<s>>

(***************************************************************************)
(* Regular expressions, matched as a backtracking engine matches them.     *)
(* A pattern is a tree of records; M gives, for a start position, the      *)
(* matches in the order backtracking tries them: the first is the match.   *)
(*   set : one character whose lower-case form is in cs (the i flag)       *)
(*   seq : the patterns xs one after the other                             *)
(*   alt : the alternatives xs, leftmost first                             *)
(*   rep : x repeated min to max times, greedy (max < 0: no upper limit)   *)
(*   cap : capturing group n around x                                      *)
(*   wb  : \b                                                              *)
(***************************************************************************)
CSet(cs)         == [k |-> "set", cs |-> cs]
RSeq(xs)         == [k |-> "seq", xs |-> xs]
Alt(xs)          == [k |-> "alt", xs |-> xs]
Rep(x, min, max) == [k |-> "rep", x |-> x, min |-> min, max |-> max]
Cap(n, x)        == [k |-> "cap", n |-> n, x |-> x]
WordB            == [k |-> "wb"]
Star(x)          == Rep(x, 0, -1)
Plus(x)          == Rep(x, 1, -1)
Opt(x)           == Rep(x, 0, 1)
Lit(str)         == RSeq([i \in 1..Len(str) |-> CSet({Char(str, i)})])

NoCaps == [n \in 1..2 |-> <<0, 0>>]

IsWordAt(s, i) == i >= 1 /\ i <= Len(s) /\ Char(s, i) \in WordChars

RECURSIVE M(_, _, _, _)
RECURSIVE MSeq(_, _, _, _, _)
RECURSIVE MAlt(_, _, _, _, _)
RECURSIVE MEach(_, _, _, _, _)
RECURSIVE MRepEach(_, _, _, _, _, _)

M(re, s, i, caps) ==
    CASE re.k = "set" ->
           IF i <= Len(s) /\ LowerChar(Char(s, i)) \in re.cs
           THEN <<[pos |-> i + 1, caps |-> caps]>> ELSE <<>>
      [] re.k = "wb" ->
           IF IsWordAt(s, i - 1) # IsWordAt(s, i)
           THEN <<[pos |-> i, caps |-> caps]>> ELSE <<>>
      [] re.k = "seq" -> MSeq(re.xs, 1, s, i, caps)
      [] re.k = "alt" -> MAlt(re.xs, 1, s, i, caps)
      [] re.k = "rep" ->
           (IF re.max # 0
            THEN MRepEach(M(re.x, s, i, caps), 1, re.x, re.min, re.max, s)
            ELSE <<>>)
           \o (IF re.min <= 0 THEN <<[pos |-> i, caps |-> caps]>> ELSE <<>>)
      [] re.k = "cap" ->
           LET rs == M(re.x, s, i, caps)
           IN  [j \in 1..Len(rs) |->
                  [pos |-> rs[j].pos,
                   caps |-> [rs[j].caps EXCEPT ![re.n] = <<i, rs[j].pos - 1>>]]]

\* xs[n..] matched from position i
MSeq(xs, n, s, i, caps) ==
    IF n > Len(xs) THEN <<[pos |-> i, caps |-> caps]>>
    ELSE MEach(M(xs[n], s, i, caps), 1, xs, n + 1, s)

\* the rest of a sequence continued from each match rs[j..] of its head
MEach(rs, j, xs, n, s) ==
    IF j > Len(rs) THEN <<>>
    ELSE MSeq(xs, n, s, rs[j].pos, rs[j].caps) \o MEach(rs, j + 1, xs, n, s)

MAlt(xs, n, s, i, caps) ==
    IF n > Len(xs) THEN <<>>
    ELSE M(xs[n], s, i, caps) \o MAlt(xs, n + 1, s, i, caps)

\* further repetitions continued from each match rs[j..] of one repetition
MRepEach(rs, j, x, min, max, s) ==
    IF j > Len(rs) THEN <<>>
    ELSE M(Rep(x, min - 1, IF max < 0 THEN max ELSE max - 1), s, rs[j].pos, rs[j].caps)
         \o MRepEach(rs, j + 1, x, min, max, s)

\* String.prototype.match without the g flag: the leftmost match, or NoMatch
NoMatch == [found |-> FALSE, from |-> 0, to |-> 0, caps |-> NoCaps]

RECURSIVE matchFrom(_, _, _)
matchFrom(re, s, i) ==
    IF i > Len(s) + 1 THEN NoMatch
    ELSE LET rs == M(re, s, i, NoCaps)
         IN  IF rs # <<>>
             THEN [found |-> TRUE, from |-> i, to |-> rs[1].pos - 1, caps |-> rs[1].caps]
             ELSE matchFrom(re, s, i + 1)

match(s, re) == matchFrom(re, s, 1)

\* m[0] and m[n] of a match
Whole(s, m)    == SubSeq(s, m.from, m.to)
Group(s, m, n) == SubSeq(s, m.caps[n][1], m.caps[n][2])

\* RegExp.prototype.test
test(re, s) == match(s, re).found

\* String.prototype.replace(re, '') without the g flag
replace(s, re) ==
    LET m == match(s, re)
    IN  IF m.found THEN SubSeq(s, 1, m.from - 1) \o SubSeq(s, m.to + 1, Len(s)) ELSE s


(***************************************************************************)
(* parseOCRToTimetable: the heuristic line parser                          *)
(***************************************************************************)
Digit == CSet(Digits)
Space == CSet(SpaceChars)

\* \d{1,2}:\d{2}
TimeToken == RSeq(<<Rep(Digit, 1, 2), CSet({":"}), Rep(Digit, 2, 2)>>)

\* (?:AM|PM)?
AmPm == Opt(Alt(<<Lit("am"), Lit("pm")>>))

\* The time pattern with the suffix inside its groups:
\* /(\d{1,2}:\d{2}\s*(?:AM|PM)?)\s*[-~=to]+\s*(\d{1,2}:\d{2}\s*(?:AM|PM)?)/i
timePattern_SuffixCaptured ==
    RSeq(<< Cap(1, RSeq(<<TimeToken, Star(Space), AmPm>>)), Star(Space),
            Plus(CSet({"-", EnDash, EmDash, "t", "o"})), Star(Space),
            Cap(2, RSeq(<<TimeToken, Star(Space), AmPm>>)) >>)

\* /(\d{1,2}:\d{2})\s*(?:AM|PM)?\s*[-~=to]+\s*(\d{1,2}:\d{2})\s*(?:AM|PM)?/i
timePattern ==
    RSeq(<< Cap(1, TimeToken), Star(Space), AmPm, Star(Space),
            Plus(CSet({"-", EnDash, EmDash, "t", "o"})), Star(Space),
            Cap(2, TimeToken), Star(Space), AmPm >>)

\* /\b(monday|tuesday|wednesday|thursday|friday|saturday|sunday)\b/i
dayPattern ==
    RSeq(<< WordB,
            Cap(1, Alt(<< Lit("monday"), Lit("tuesday"), Lit("wednesday"),
                          Lit("thursday"), Lit("friday"), Lit("saturday"),
                          Lit("sunday") >>)),
            WordB >>)

\* The room pattern without its number: /\b(?:room|lab|hall|lecture)\b/i
roomPattern_WordOnly ==
    RSeq(<< WordB,
            Alt(<<Lit("room"), Lit("lab"), Lit("hall"), Lit("lecture")>>),
            WordB >>)

\* /\b(?:room|lab|hall|lecture)\s*[a-z]?[-\s]?(\d+[a-z]?)\b/i
roomPattern ==
    RSeq(<< WordB,
            Alt(<<Lit("room"), Lit("lab"), Lit("hall"), Lit("lecture")>>),
            Star(Space), Opt(CSet(LowerSet)), Opt(CSet({"-"} \cup SpaceChars)),
            Cap(1, RSeq(<<Plus(Digit), Opt(CSet(LowerSet))>>)),
            WordB >>)

\* /header|table|schedule/i
headerPattern == Alt(<<Lit("header"), Lit("table"), Lit("schedule")>>)

\* ocrText.split('\n').map(line => line.trim()).filter(Boolean)
RECURSIVE trimmedNonEmpty(_)
trimmedNonEmpty(ls) ==
    IF ls = <<>> THEN <<>>
    ELSE LET l == trim(Head(ls))
         IN  (IF l = "" THEN <<>> ELSE <<l>>) \o trimmedNonEmpty(Tail(ls))

splitLines(ocrText) == trimmedNonEmpty(split(ocrText, "\n"))

\* The guard without its header test: line.length < 5
skipped_LengthOnly(line) == Len(line) < 5

\* the guard of the forEach callback: the line is skipped
skipped(line) == Len(line) < 5 \/ test(headerPattern, line)

\* The day as it was found: dayMatch[1]
recase_AsFound(w) == w

\* dayMatch[1].charAt(0).toUpperCase() + dayMatch[1].slice(1).toLowerCase()
recase(w) == toUpperCase(SubSeq(w, 1, 1)) \o toLowerCase(SubSeq(w, 2, Len(w)))

\* The callback without its `if (!timeMatch) return`, the times defaulting to ''
parseLine_NoTimeGuard(entries, line) ==
    IF skipped(line) THEN entries
    ELSE LET timeMatch == match(line, timePattern)
         IN  IF FALSE THEN entries
             ELSE LET startTime == IF timeMatch.found THEN Group(line, timeMatch, 1) ELSE ""
                      endTime   == IF timeMatch.found THEN Group(line, timeMatch, 2) ELSE ""
                      dayMatch  == match(line, dayPattern)
                      day       == IF dayMatch.found
                                   THEN recase(Group(line, dayMatch, 1))
                                   ELSE "Monday"
                      roomMatch == match(line, roomPattern)
                      location  == IF roomMatch.found THEN Whole(line, roomMatch) ELSE ""
                      stripped  == trim(replace(replace(replace(line, timePattern),
                                                        dayPattern), roomPattern))
                      title     == IF stripped = ""
                                   THEN "Class " \o ToString(Len(entries) + 1)
                                   ELSE stripped
                  IN  Append(entries, Entry(day, startTime, endTime, title, location))

\* The callback numbering a synthesized title from entries.length
parseLine_ClassFromZero(entries, line) ==
    IF skipped(line) THEN entries
    ELSE LET timeMatch == match(line, timePattern)
         IN  IF ~timeMatch.found THEN entries
             ELSE LET startTime == Group(line, timeMatch, 1)
                      endTime   == Group(line, timeMatch, 2)
                      dayMatch  == match(line, dayPattern)
                      day       == IF dayMatch.found
                                   THEN recase(Group(line, dayMatch, 1))
                                   ELSE "Monday"
                      roomMatch == match(line, roomPattern)
                      location  == IF roomMatch.found THEN Whole(line, roomMatch) ELSE ""
                      stripped  == trim(replace(replace(replace(line, timePattern),
                                                        dayPattern), roomPattern))
                      title     == IF stripped = ""
                                   THEN "Class " \o ToString(Len(entries))
                                   ELSE stripped
                  IN  Append(entries, Entry(day, startTime, endTime, title, location))

\* The callback putting its entry in front: entries.unshift({...})
parseLine_Unshift(entries, line) ==
    IF skipped(line) THEN entries
    ELSE LET timeMatch == match(line, timePattern)
         IN  IF ~timeMatch.found THEN entries
             ELSE LET startTime == Group(line, timeMatch, 1)
                      endTime   == Group(line, timeMatch, 2)
                      dayMatch  == match(line, dayPattern)
                      day       == IF dayMatch.found
                                   THEN recase(Group(line, dayMatch, 1))
                                   ELSE "Monday"
                      roomMatch == match(line, roomPattern)
                      location  == IF roomMatch.found THEN Whole(line, roomMatch) ELSE ""
                      stripped  == trim(replace(replace(replace(line, timePattern),
                                                        dayPattern), roomPattern))
                      title     == IF stripped = ""
                                   THEN "Class " \o ToString(Len(entries) + 1)
                                   ELSE stripped
                  IN  <<Entry(day, startTime, endTime, title, location)>> \o entries

\* The callback taking the day of the entry before for a line without one
parseLine_DayCarriedOver(entries, line) ==
    IF skipped(line) THEN entries
    ELSE LET timeMatch == match(line, timePattern)
         IN  IF ~timeMatch.found THEN entries
             ELSE LET startTime == Group(line, timeMatch, 1)
                      endTime   == Group(line, timeMatch, 2)
                      dayMatch  == match(line, dayPattern)
                      day       == IF dayMatch.found
                                   THEN recase(Group(line, dayMatch, 1))
                                   ELSE IF entries # <<>>
                                   THEN entries[Len(entries)].day
                                   ELSE "Monday"
                      roomMatch == match(line, roomPattern)
                      location  == IF roomMatch.found THEN Whole(line, roomMatch) ELSE ""
                      stripped  == trim(replace(replace(replace(line, timePattern),
                                                        dayPattern), roomPattern))
                      title     == IF stripped = ""
                                   THEN "Class " \o ToString(Len(entries) + 1)
                                   ELSE stripped
                  IN  Append(entries, Entry(day, startTime, endTime, title, location))

\* the body of the forEach callback for one line, `entries` being the
\* entries pushed so far: the entries after the line
parseLine(entries, line) ==
    IF skipped(line) THEN entries
    ELSE LET timeMatch == match(line, timePattern)
         IN  IF ~timeMatch.found THEN entries
             ELSE LET startTime == Group(line, timeMatch, 1)
                      endTime   == Group(line, timeMatch, 2)
                      dayMatch  == match(line, dayPattern)
                      day       == IF dayMatch.found
                                   THEN recase(Group(line, dayMatch, 1))
                                   ELSE "Monday"
                      roomMatch == match(line, roomPattern)
                      location  == IF roomMatch.found THEN Whole(line, roomMatch) ELSE ""
                      stripped  == trim(replace(replace(replace(line, timePattern),
                                                        dayPattern), roomPattern))
                      title     == IF stripped = ""
                                   THEN "Class " \o ToString(Len(entries) + 1)
                                   ELSE stripped
                  IN  Append(entries, Entry(day, startTime, endTime, title, location))

RECURSIVE forEachLine(_, _, _)
forEachLine(lines, n, entries) ==
    IF n > Len(lines) THEN entries
    ELSE forEachLine(lines, n + 1, parseLine(entries, lines[n]))

parseOCRToTimetable(ocrText) == forEachLine(splitLines(ocrText), 1, <<>>)


(***************************************************************************)
(* POST /api/ocr                                                           *)
(***************************************************************************)
\* Bounds of the vision responses that are enumerated
MaxEntries == 2     \* longest array in a vision response
MaxKeys    == 2     \* most members of a vision response object

\* A member of req.body: [t, s], t the JavaScript type and s the text
FieldAbsent == [t |-> "undefined", s |-> ""]
FieldStr(x) == [t |-> "string",    s |-> x]
FieldBool(b) == [t |-> "boolean",  s |-> IF b THEN "true" ELSE "false"]

ImagePayloads ==
    { FieldAbsent, FieldStr(""), FieldStr("data:image/png;base64,iVBORw0KGgo="),
      FieldStr("hello") }
EnhanceHints ==
    { FieldAbsent, FieldBool(TRUE), FieldBool(FALSE), FieldStr("yes") }
Bodies == [imageData : ImagePayloads, enhanceResults : EnhanceHints]
NoBody == [imageData |-> FieldAbsent, enhanceResults |-> FieldAbsent]

\* The schema without .min(1) on imageData
schemaParses_NoMin(b) ==
    /\ b.imageData.t = "string"
    /\ b.enhanceResults.t \in {"boolean", "undefined"}

\* The schema with a required hint: enhanceResults: z.boolean()
schemaParses_HintRequired(b) ==
    /\ b.imageData.t = "string" /\ Len(b.imageData.s) >= 1
    /\ b.enhanceResults.t = "boolean"

\* z.object({ imageData: z.string().min(1), enhanceResults: z.boolean().optional() })
\* schema.parse(req.body) returns (TRUE) or throws a ZodError (FALSE)
schemaParses(b) ==
    /\ b.imageData.t = "string" /\ Len(b.imageData.s) >= 1
    /\ b.enhanceResults.t \in {"boolean", "undefined"}

\* processImageWithTesseract for the image of a request: it throws, or
\* returns the recognized text
OcrThrows     == [ok |-> FALSE, text |-> ""]
OcrText(t)    == [ok |-> TRUE,  text |-> t]
CalculusLine  == "Monday 09:00-10:30 Room 101 Calculus"
OcrOutcomes   == { OcrThrows, OcrText(CalculusLine), OcrText("Room 101") }

\* The entries a vision response may hold: the service is not bound to the
\* schema it is asked for
ChemistryEntry == Entry("Tuesday", "14:00", "15:00", "Chemistry", "Lab 2")
LooseEntry     == Entry("Mon", "9am", "25:99", "", "")
EntryPool      == {ChemistryEntry, LooseEntry}

Arrays == UNION {[1..n -> EntryPool] : n \in 0..MaxEntries}
Keys   == <<"entries", "timetable", "schedule", "classes">>
KeySet == {Keys[i] : i \in 1..Len(Keys)}

\* The values of a member of the parsed response (Undefined: no such member)
MemberValues == {Undefined, JNull, JStr} \cup {JArr(a) : a \in Arrays}

Objects ==
    {o \in [KeySet -> MemberValues] :
        Cardinality({k \in KeySet : o[k] # Undefined}) <= MaxKeys}
EmptyObject == [k \in KeySet |-> Undefined]

\* How openai.chat.completions.create and the reading of its response end:
\*   "throws"    the call rejects (network or service error)
\*   "nocontent" response.choices[0].message.content is empty
\*   "badjson"   JSON.parse(content) throws
\*   "object"    JSON.parse(content) is the object obj
VisionFails(kind) == [kind |-> kind, obj |-> EmptyObject]
VisionObject(o)   == [kind |-> "object", obj |-> o]
VisionOutcomes ==
    {VisionFails(k) : k \in {"throws", "nocontent", "badjson"}}
        \cup {VisionObject(o) : o \in Objects}
NoVision == VisionFails("none")

\* parsedResponse.entries || parsedResponse.timetable ||
\* parsedResponse.schedule || parsedResponse.classes || []
selectResult(o) ==
    Or(o["entries"], Or(o["timetable"], Or(o["schedule"], Or(o["classes"], JArr(<<>>)))))

\* The handler whose inner catch answers with an empty result
respond_CatchEmpty(v) ==
    IF v.kind \in {"throws", "nocontent", "badjson"}
    THEN [status |-> 200, result |-> JArr(<<>>)]
    ELSE [status |-> 200, result |-> selectResult(v.obj)]

\* The handler without its inner try: a failure of the vision stage reaches
\* the outer catch, which answers 500 "OCR processing failed"
respond_NoInnerCatch(v) ==
    IF v.kind \in {"throws", "nocontent", "badjson"}
    THEN [status |-> 500, result |-> Undefined]
    ELSE [status |-> 200, result |-> selectResult(v.obj)]

\* The inner try and its catch (ocrError): the response for a vision outcome
respond(v) ==
    IF v.kind \in {"throws", "nocontent", "badjson"}
    THEN [status |-> 200, result |-> JArr(FallbackEntrySet)]
    ELSE [status |-> 200, result |-> selectResult(v.obj)]

\* The outer catch for a ZodError
rejection == [status |-> 400, result |-> Undefined]

\* No request is being handled
RouteIdle ==
    /\ pc = "idle"
    /\ body = NoBody
    /\ tesseract = OcrThrows
    /\ vision = NoVision
    /\ calls = {}
    /\ status = 0
    /\ result = Undefined

\* No call of parseOCRToTimetable is running
ParserIdle ==
    /\ ppc = "idle"
    /\ pText = ""
    /\ pLines = <<>>
    /\ pIdx = 0
    /\ pEntries = <<>>

\* The handler of one request, as ConcIdle and the Conc actions keep it
IdleRequest ==
    [pc |-> "idle", body |-> NoBody, service |-> NoVision, vision |-> NoVision,
     status |-> 0, result |-> Undefined]

NumRequests == 2     \* requests handled at once

RequestIds == 1..NumRequests

ConcIdle == reqs = [r \in RequestIds |-> IdleRequest]

\* The uploader dialog as it mounts: nothing selected, no handleUpload running.
\* user is useAuth().user, demo is isDemoMode()
Uploader(user, demo) ==
    [pc |-> "idle", user |-> user, demo |-> demo,
     selectedFile |-> FALSE, reading |-> FALSE, preview |-> FALSE,
     isProcessing |-> FALSE, calls |-> <<>>, inFlight |-> {},
     vision |-> NoVision, toast |-> "none", scanned |-> "none"]

UploaderIdle == up = Uploader(TRUE, FALSE)

\* The scanner as it mounts (the useState initial values)
Scanner ==
    [selectedFile |-> FALSE, previewUrl |-> FALSE, isScanning |-> FALSE,
     error |-> "none", scanningProgress |-> 0]

\* A processImage call that has not started
NoReply == [kind |-> "none", status |-> 0, result |-> Undefined]
NewScan ==
    [pc |-> "new", timer |-> FALSE, abandoned |-> FALSE, reply |-> NoReply,
     completed |-> Undefined]

MaxScans == 2        \* processImage calls in one behaviour

ScanIds == 1..MaxScans

ScannerIdle == sc = Scanner /\ scans = [i \in ScanIds |-> NewScan]

Init == RouteIdle /\ ParserIdle /\ ConcIdle /\ UploaderIdle /\ ScannerIdle

\* A request arrives whose body schema.parse rejects: 400, nothing is called
PostOcrRejected ==
    /\ pc = "idle"
    /\ \E b \in Bodies :
         /\ ~schemaParses(b)
         /\ body' = b
    /\ pc' = "responded"
    /\ status' = rejection.status
    /\ result' = rejection.result
    /\ UNCHANGED <<tesseract, vision, calls>>
    /\ UNCHANGED notRoute

\* A request arrives whose body schema.parse accepts: the handler calls the
\* vision service and awaits it
PostOcrAccepted ==
    /\ pc = "idle"
    /\ \E b \in Bodies, t \in OcrOutcomes :
         /\ schemaParses(b)
         /\ body' = b
         /\ tesseract' = t
    /\ pc' = "awaitVision"
    /\ calls' = {"vision"}
    /\ UNCHANGED <<vision, status, result>>
    /\ UNCHANGED notRoute

\* The awaited vision call settles: the handler responds
VisionSettles ==
    /\ pc = "awaitVision"
    /\ \E v \in VisionOutcomes :
         /\ vision' = v
         /\ status' = respond(v).status
         /\ result' = respond(v).result
    /\ pc' = "responded"
    /\ UNCHANGED <<body, tesseract, calls>>
    /\ UNCHANGED notRoute

\* The handler has returned; the next request starts from nothing
NextRequest ==
    /\ pc = "responded"
    /\ pc' = "idle"
    /\ body' = NoBody
    /\ tesseract' = OcrThrows
    /\ vision' = NoVision
    /\ calls' = {}
    /\ status' = 0
    /\ result' = Undefined
    /\ UNCHANGED notRoute

Next == PostOcrRejected \/ PostOcrAccepted \/ VisionSettles \/ NextRequest

Spec == Init /\ [][Next]_vars

(***************************************************************************)
(* A call of parseOCRToTimetable, one line of the forEach at a time         *)
(***************************************************************************)
MaxLines == 2     \* most lines of a recognized text

\* Lines an OCR engine may recognize on a timetable
LinePool ==
    { CalculusLine,
      "Room 101",
      "MONDAY 9:00-10:00",
      "monday 9:00-10:00",
      "Monday 9:00-10:00",
      "friday 13:00 to 14:30 Lab-3",
      "9:00-10:00 Physics",
      "Fridays 8:00-9:00 Art",
      "  ",
      "Tue",
      "Lab 9:00-10:00 3 Physics",
      "99:99-10:75 Math",
      "10:00 ot 11:00 Art",
      "2:00 PM - 3:00 PM Math",
      "2:00 - 3:00 Math",
      "SCHEDULE 9:00-10:00 Math",
      "10:00-11:00 amber" }

RECURSIVE join(_)
join(ls) ==
    IF ls = <<>> THEN ""
    ELSE IF Len(ls) = 1 THEN ls[1]
    ELSE ls[1] \o "\n" \o join(Tail(ls))

Texts == {join(ls) : ls \in UNION {[1..n -> LinePool] : n \in 0..MaxLines}}

InitParser ==
    /\ RouteIdle
    /\ ConcIdle
    /\ UploaderIdle
    /\ ScannerIdle
    /\ ppc = "loop"
    /\ pText \in Texts
    /\ pLines = splitLines(pText)
    /\ pIdx = 0
    /\ pEntries = <<>>

\* One call of the forEach callback
ParseNextLine ==
    /\ ppc = "loop"
    /\ pIdx < Len(pLines)
    /\ pEntries' = parseLine(pEntries, pLines[pIdx + 1])
    /\ pIdx' = pIdx + 1
    /\ UNCHANGED <<ppc, pText, pLines>>
    /\ UNCHANGED notParser

\* return entries
ParseReturns ==
    /\ ppc = "loop"
    /\ pIdx = Len(pLines)
    /\ ppc' = "returned"
    /\ UNCHANGED <<pText, pLines, pIdx, pEntries>>
    /\ UNCHANGED notParser

NextParser == ParseNextLine \/ ParseReturns

SpecParser == InitParser /\ [][NextParser]_vars

(***************************************************************************)
(* Several /ocr requests at once.  The handler keeps everything in locals  *)
(* (schema, imageData, openai, response, content, parsedResponse): each     *)
(* request has its own copy, and the awaits let the handlers interleave.    *)
(***************************************************************************)
ConcBodies ==
    [imageData : {FieldStr(""), FieldStr("data:image/png;base64,iVBORw0KGgo=")},
     enhanceResults : {FieldAbsent, FieldBool(TRUE), FieldBool(FALSE)}]

ConcVisions ==
    { VisionFails("throws"), VisionFails("badjson"), VisionObject(EmptyObject),
      VisionObject([EmptyObject EXCEPT !["entries"] = JArr(<<ChemistryEntry>>)]),
      VisionObject([EmptyObject EXCEPT !["classes"] = JArr(<<LooseEntry>>)]) }

\* The handler of request r after its vision call settled with v, rs being
\* all the requests
settled_SharedResponse(rs, r, v) ==
    LET others == {q \in DOMAIN rs : q # r /\ rs[q].pc = "responded" /\ rs[q].status = 200}
        shared == IF others = {} THEN respond(v)
                  ELSE LET q == CHOOSE q \in others : TRUE
                       IN  [status |-> rs[q].status, result |-> rs[q].result]
    IN  [rs[r] EXCEPT !.pc = "responded", !.vision = v,
                      !.status = shared.status, !.result = shared.result]

settled(rs, r, v) ==
    [rs[r] EXCEPT !.pc = "responded", !.vision = v,
                  !.status = respond(v).status, !.result = respond(v).result]

\* Request r arrives; `service` is how the vision service will answer its call
ConcRejected(r) ==
    /\ reqs[r].pc = "idle"
    /\ \E b \in ConcBodies, v \in ConcVisions :
         /\ ~schemaParses(b)
         /\ reqs' = [reqs EXCEPT ![r] =
                        [IdleRequest EXCEPT !.pc = "responded", !.body = b, !.service = v,
                                            !.status = rejection.status,
                                            !.result = rejection.result]]
    /\ UNCHANGED notConc

ConcAccepted(r) ==
    /\ reqs[r].pc = "idle"
    /\ \E b \in ConcBodies, v \in ConcVisions :
         /\ schemaParses(b)
         /\ reqs' = [reqs EXCEPT ![r] =
                        [IdleRequest EXCEPT !.pc = "awaitVision", !.body = b, !.service = v]]
    /\ UNCHANGED notConc

ConcVisionSettles(r) ==
    /\ reqs[r].pc = "awaitVision"
    /\ reqs' = [reqs EXCEPT ![r] = settled(reqs, r, reqs[r].service)]
    /\ UNCHANGED notConc

ConcReturns(r) ==
    /\ reqs[r].pc = "responded"
    /\ reqs' = [reqs EXCEPT ![r] = IdleRequest]
    /\ UNCHANGED notConc

NextConc ==
    \E r \in RequestIds :
        ConcRejected(r) \/ ConcAccepted(r) \/ ConcVisionSettles(r) \/ ConcReturns(r)

SpecConc == Init /\ [][NextConc]_vars

(***************************************************************************)
(* The OCRUploader dialog.  handleUpload runs the OCR engine on the         *)
(* selected file, then posts a FormData to /api/ocr through apiRequest.     *)
(* up.calls lists the external calls of the current import in the order     *)
(* they started, up.inFlight those that have not settled; up.vision is how  *)
(* the vision stage of the import ended (NoVision: it has not run).         *)
(***************************************************************************)
\* JSON.stringify(formData): a FormData has no enumerable own properties, so
\* the request body is "{}" and req.body has neither member
UploaderBody == NoBody

\* What the /ocr route answers to body b when its vision call ends as v
serverAnswer(b, v) == IF schemaParses(b) THEN respond(v) ELSE rejection

\* catch (error) { toast "Processing failed" } finally { ... }
uploadFailed(u) ==
    [u EXCEPT !.pc = "idle", !.inFlight = {}, !.toast = "failed",
              !.isProcessing = FALSE, !.selectedFile = FALSE, !.preview = FALSE]

\* toast "Timetable processed"; onScan(result); finally { ... }
uploadDone(u, from) ==
    [u EXCEPT !.pc = "idle", !.inFlight = {}, !.toast = "processed", !.scanned = from,
              !.isProcessing = FALSE, !.selectedFile = FALSE, !.preview = FALSE]

\* handleFileChange: the input is rendered while there is no preview
UpHandleFileChange ==
    /\ ~up.preview
    /\ up' = [up EXCEPT !.selectedFile = TRUE, !.reading = TRUE]
    /\ UNCHANGED notUploader

\* fileReader.onload
UpPreviewLoaded ==
    /\ up.reading
    /\ up' = [up EXCEPT !.reading = FALSE, !.preview = TRUE]
    /\ UNCHANGED notUploader

\* captureImage: it sets the file and the preview, or toasts its failure
UpCaptureImage ==
    /\ ~up.preview
    /\ \E ok \in BOOLEAN :
         up' = IF ok THEN [up EXCEPT !.selectedFile = TRUE, !.preview = TRUE]
               ELSE [up EXCEPT !.toast = "camera"]
    /\ UNCHANGED notUploader

\* The Change button over the preview
UpChange ==
    /\ up.preview
    /\ up' = [up EXCEPT !.selectedFile = FALSE, !.preview = FALSE]
    /\ UNCHANGED notUploader

\* handleUpload up to its first await: the button is enabled with a file
\* selected and no upload running; without a user the handler returns
UpHandleUpload ==
    /\ up.pc = "idle"
    /\ up.selectedFile /\ ~up.isProcessing
    /\ up' = IF ~up.user THEN up
             ELSE [up EXCEPT !.pc = "awaitOcr", !.isProcessing = TRUE,
                             !.calls = <<"ocr">>, !.inFlight = {"ocr"},
                             !.vision = NoVision, !.scanned = "none"]
    /\ UNCHANGED notUploader

\* processImageWithTesseract settles; on text, apiRequest("POST", "/api/ocr",
\* formData): in demo mode a mock 201 without a request, otherwise fetch
UpOcrSettles ==
    /\ up.pc = "awaitOcr"
    /\ \E o \in OcrOutcomes :
         up' = IF ~o.ok THEN uploadFailed(up)
               ELSE IF up.demo THEN uploadDone(up, "mock")
               ELSE [up EXCEPT !.pc = "awaitPost", !.inFlight = {"post"},
                               !.calls = Append(@, "post")]
    /\ UNCHANGED notUploader

\* fetch settles: it rejects, or the route has answered UploaderBody (calling
\* the vision service when the schema accepts it); throwIfResNotOk throws on
\* a status that is not ok
UpPostSettles ==
    /\ up.pc = "awaitPost"
    /\ \E net \in {"rejects", "answers"}, v \in ConcVisions :
         LET called == net = "answers" /\ schemaParses(UploaderBody)
             answer == serverAnswer(UploaderBody, v)
             u == IF called
                  THEN [up EXCEPT !.calls = Append(@, "vision"), !.vision = v]
                  ELSE up
         IN  up' = IF net = "answers" /\ answer.status \in 200..299
                   THEN uploadDone(u, "server")
                   ELSE uploadFailed(u)
    /\ UNCHANGED notUploader

NextUploader ==
    \/ UpHandleFileChange
    \/ UpPreviewLoaded
    \/ UpCaptureImage
    \/ UpChange
    \/ UpHandleUpload
    \/ UpOcrSettles
    \/ UpPostSettles

InitUploader ==
    /\ RouteIdle /\ ParserIdle /\ ConcIdle /\ ScannerIdle
    /\ up \in {Uploader(user, demo) : user \in BOOLEAN, demo \in BOOLEAN}

SpecUploader == InitUploader /\ [][NextUploader]_vars

(***************************************************************************)
(* The OCRScanner component.  sc holds its useState values; scans[i] is the *)
(* i-th call of processImage: where it stands, whether its progress         *)
(* interval is running, the response it received and what it passed to      *)
(* onScanComplete (Undefined: it has not called it).  scans[i].abandoned    *)
(* records that cancelScan ran while the call's request was in flight.      *)
(***************************************************************************)
\* JSON.stringify({ imageData, enhanceResults: true }), imageData being the
\* data URL fileToBase64 resolves with
ScannerBody ==
    [imageData |-> FieldStr("data:image/png;base64,iVBORw0KGgo="),
     enhanceResults |-> FieldBool(TRUE)]

ScanVisions ==
    { VisionFails("throws"), VisionObject(EmptyObject),
      VisionObject([EmptyObject EXCEPT !["entries"] = JArr(<<ChemistryEntry>>)]) }

\* How the fetch of /api/ocr settles: it rejects, or it resolves with the
\* route's answer, or with an answer that is not ok from in front of the route
FetchRejects == [kind |-> "rejects", status |-> 0, result |-> Undefined]
Answer(a)    == [kind |-> "answers", status |-> a.status, result |-> a.result]
ScanReplies ==
    {FetchRejects, Answer([status |-> 413, result |-> Undefined])}
        \cup {Answer(serverAnswer(ScannerBody, v)) : v \in ScanVisions}

TickSteps == {0, 9}      \* Math.random() * 10, on a grid

\* !data.result || data.result.length === 0
noEntries(res) == ~Truthy(res) \/ (IsArray(res) /\ Len(res.arr) = 0)

\* catch (err): setError('Failed to process image...'); setIsScanning(false)
scanFailed(c) == [c EXCEPT !.error = "failed", !.isScanning = FALSE]

\* handleFileChange (handleCameraCapture ends in it too): the inputs are
\* rendered while isScanning is false
ScHandleFileChange ==
    /\ ~sc.isScanning
    /\ \E file \in {"none", "text/plain", "image/png"} :
         sc' = IF file = "none" THEN sc
               ELSE IF file # "image/png" THEN [sc EXCEPT !.error = "notImage"]
               ELSE [sc EXCEPT !.error = "none", !.selectedFile = TRUE,
                               !.previewUrl = TRUE]
    /\ UNCHANGED scans
    /\ UNCHANGED notScanner

\* processImage up to its first await: the Scan button is rendered while
\* isScanning is false and enabled with a file selected.  It starts the
\* progress interval
ScProcessImage(i) ==
    /\ scans[i].pc = "new"
    /\ \A j \in ScanIds : j < i => scans[j].pc # "new"
    /\ ~sc.isScanning /\ sc.selectedFile
    /\ sc' = [sc EXCEPT !.isScanning = TRUE, !.error = "none"]
    /\ scans' = [scans EXCEPT ![i] = [@ EXCEPT !.pc = "awaitBase64", !.timer = TRUE]]
    /\ UNCHANGED notScanner

\* The interval callback of call i
ScTick(i) ==
    /\ scans[i].timer
    /\ \E d \in TickSteps :
         LET newProgress == sc.scanningProgress + d
         IN  sc' = [sc EXCEPT !.scanningProgress =
                                 IF newProgress > 90 THEN 90 ELSE newProgress]
    /\ UNCHANGED scans
    /\ UNCHANGED notScanner

\* fileToBase64 settles: the fetch starts, or the catch runs
ScBase64Settles(i) ==
    /\ scans[i].pc = "awaitBase64"
    /\ \E ok \in BOOLEAN :
         IF ok
         THEN /\ scans' = [scans EXCEPT ![i] = [@ EXCEPT !.pc = "awaitFetch"]]
              /\ sc' = sc
         ELSE /\ scans' = [scans EXCEPT ![i] = [@ EXCEPT !.pc = "done"]]
              /\ sc' = scanFailed(sc)
    /\ UNCHANGED notScanner

\* fetch settles: on a rejection the catch runs; otherwise clearInterval,
\* setScanningProgress(100), and the throw for a response that is not ok
ScFetchSettles(i) ==
    /\ scans[i].pc = "awaitFetch"
    /\ \E reply \in ScanReplies :
         IF reply.kind = "rejects"
         THEN /\ scans' = [scans EXCEPT ![i] = [@ EXCEPT !.pc = "done", !.reply = reply]]
              /\ sc' = scanFailed(sc)
         ELSE IF reply.status \notin 200..299
         THEN /\ scans' = [scans EXCEPT ![i] =
                             [@ EXCEPT !.pc = "done", !.reply = reply, !.timer = FALSE]]
              /\ sc' = scanFailed([sc EXCEPT !.scanningProgress = 100])
         ELSE /\ scans' = [scans EXCEPT ![i] =
                             [@ EXCEPT !.pc = "awaitJson", !.reply = reply, !.timer = FALSE]]
              /\ sc' = [sc EXCEPT !.scanningProgress = 100]
    /\ UNCHANGED notScanner

\* response.json() settles: no entries, or onScanComplete(data.result) and
\* the setTimeout
ScJsonSettles(i) ==
    /\ scans[i].pc = "awaitJson"
    /\ IF noEntries(scans[i].reply.result)
       THEN /\ scans' = [scans EXCEPT ![i] = [@ EXCEPT !.pc = "done"]]
            /\ sc' = [sc EXCEPT !.error = "noEntries", !.isScanning = FALSE]
       ELSE /\ scans' = [scans EXCEPT ![i] =
                           [@ EXCEPT !.pc = "awaitReset",
                                     !.completed = scans[i].reply.result]]
            /\ sc' = sc
    /\ UNCHANGED notScanner

\* The setTimeout callback
ScResetFires(i) ==
    /\ scans[i].pc = "awaitReset"
    /\ scans' = [scans EXCEPT ![i] = [@ EXCEPT !.pc = "done"]]
    /\ sc' = [sc EXCEPT !.isScanning = FALSE, !.selectedFile = FALSE,
                        !.previewUrl = FALSE, !.scanningProgress = 0]
    /\ UNCHANGED notScanner

\* cancelScan: its button is rendered, while scanning, enabled below 100
\* and, otherwise, with a file selected.  It leaves the calls under way alone
ScCancelScan ==
    /\ IF sc.isScanning THEN sc.scanningProgress < 100 ELSE sc.selectedFile
    /\ sc' = [sc EXCEPT !.selectedFile = FALSE, !.previewUrl = FALSE,
                        !.error = "none", !.isScanning = FALSE,
                        !.scanningProgress = 0]
    /\ scans' = [i \in ScanIds |->
                    IF scans[i].pc = "awaitFetch"
                    THEN [scans[i] EXCEPT !.abandoned = TRUE]
                    ELSE scans[i]]
    /\ UNCHANGED notScanner

NextScanner ==
    \/ ScHandleFileChange
    \/ ScCancelScan
    \/ \E i \in ScanIds :
         \/ ScProcessImage(i)
         \/ ScTick(i)
         \/ ScBase64Settles(i)
         \/ ScFetchSettles(i)
         \/ ScJsonSettles(i)
         \/ ScResetFires(i)

SpecScanner == Init /\ [][NextScanner]_vars

\* The handler's own steps are taken when they can be; nothing in the handler
\* makes the awaited vision call settle (create is given no timeout and no
\* abort signal), so VisionSettles is left to the service
FairSpec == Spec /\ WF_vars(NextRequest)


(***************************************************************************)
(* Properties                                                              *)
(***************************************************************************)
Responded == pc = "responded"

\* The request passed input validation
Validated == schemaParses(body)

\* The entry array the adapter is specified to take from a response object:
\* the value under the first of entries, timetable, schedule, classes that
\* is present and is an array; empty if there is none
RECURSIVE firstArrayFrom(_, _)
firstArrayFrom(o, n) ==
    IF n > Len(Keys) THEN <<>>
    ELSE IF IsArray(o[Keys[n]]) THEN o[Keys[n]].arr
    ELSE firstArrayFrom(o, n + 1)

firstArray(o) == firstArrayFrom(o, 1)

VisionFailed == vision.kind \in {"throws", "nocontent", "badjson"}

\* The vision stage yields no entries
VisionYieldsNone ==
    VisionFailed \/ (vision.kind = "object" /\ firstArray(vision.obj) = <<>>)

\* What the heuristic parser makes of each outcome of the OCR engine
Parsed == [o \in OcrOutcomes |-> IF o.ok THEN parseOCRToTimetable(o.text) ELSE <<>>]

\* ^[0-2]?[0-9]:[0-5][0-9]$
ClockPattern ==
    RSeq(<< Opt(CSet({"0", "1", "2"})), Digit, CSet({":"}),
            CSet({"0", "1", "2", "3", "4", "5"}), Digit >>)

IsClock(s) ==
    \E j \in 1..Len(M(ClockPattern, s, 1, NoCaps)) :
        M(ClockPattern, s, 1, NoCaps)[j].pos = Len(s) + 1

WeekDays ==
    {"Monday", "Tuesday", "Wednesday", "Thursday", "Friday", "Saturday", "Sunday"}

WellFormed(e) ==
    /\ e.day \in WeekDays
    /\ IsClock(e.startTime)
    /\ IsClock(e.endTime)
    /\ e.title # ""

\* C1: every request that passes validation is answered with a non-empty
\* sequence of entries, whatever the vision service does.
C1_ResultNonEmpty ==
    (Responded /\ Validated) => (IsArray(result) /\ Len(result.arr) >= 1)

\* C2: first success wins: when the response holds one or more entries under
\* a recognized key, the result is exactly that array, in order, and no later
\* stage ran.
C2_FirstSuccessWins ==
    (Responded /\ vision.kind = "object" /\ firstArray(vision.obj) # <<>>)
        => (result = JArr(firstArray(vision.obj)) /\ calls = {"vision"})

\* C3: when the vision stage yields no entries, the OCR engine's text is
\* obtained and parsed, and a non-empty parse is the result of the request.
C3_HeuristicStage ==
    (Responded /\ Validated /\ VisionYieldsNone /\ tesseract.ok
        /\ Parsed[tesseract] # <<>>)
        => (result = JArr(Parsed[tesseract]) /\ {"ocr", "parser"} \subseteq calls)

\* C4: when the vision service and the OCR engine both fail, the result is
\* the fixed six-entry fallback set, in order, starting with Monday
\* 09:00-10:30 Mathematics in Room 101.
C4_FullFailureFallback ==
    (Responded /\ Validated /\ vision.kind \in {"throws", "nocontent"} /\ ~tesseract.ok)
        => /\ result = JArr(FallbackEntrySet)
           /\ Len(result.arr) = 6
           /\ result.arr[1] = Entry("Monday", "09:00", "10:30", "Mathematics", "Room 101")

C4_Witness ==
    /\ Responded /\ Validated /\ vision.kind = "throws" /\ ~tesseract.ok
    /\ result = JArr(FallbackEntrySet)

\* C5: every request that passes validation is answered with success,
\* whatever the vision service and the OCR engine do.
C5_AlwaysSuccess ==
    (Responded /\ Validated) => status = 200

C5_Witness ==
    Responded /\ Validated /\ vision.kind = "badjson" /\ ~tesseract.ok /\ status = 200

\* C6: an empty array under the recognized key is "no result": it is never
\* returned to the caller as the result.
C6_EmptyArrayIsNoResult ==
    (Responded /\ vision.kind = "object"
        /\ (\E k \in KeySet : IsArray(vision.obj[k]))
        /\ firstArray(vision.obj) = <<>>)
        => result # JArr(<<>>)

\* C7: for every response object the adapter's array is the value under the
\* first key, in the order entries, timetable, schedule, classes, that is
\* present and is an array (a non-array value is skipped), and empty if no
\* key qualifies.
C7_FirstArrayKey ==
    (Responded /\ vision.kind = "object")
        => result = JArr(firstArray(vision.obj))

\* C8: a malformed vision response (unparseable, or an object with none of
\* the known keys) gives the same final response as an unreachable vision
\* service.
C8_MalformedAsUnavailable ==
    (Responded /\ Validated
        /\ (vision.kind = "badjson"
            \/ (vision.kind = "object" /\ vision.obj = EmptyObject)))
        => (status = respond(VisionFails("throws")).status
            /\ result = respond(VisionFails("throws")).result)

\* C9: every entry of every returned batch has a canonical weekday name, two
\* clock times and a non-empty title.
C9_EntriesWellFormed ==
    (Responded /\ IsArray(result))
        => \A i \in 1..Len(result.arr) : WellFormed(result.arr[i])

\* C10: a request whose image payload is missing or empty is rejected: no
\* stage is invoked and no entries are returned.
C10_EmptyPayloadRejected ==
    (Responded /\ (body.imageData.t = "undefined" \/ body.imageData = FieldStr("")))
        => (status = 400 /\ calls = {} /\ result = Undefined)

C10_Witness ==
    Responded /\ body.imageData = FieldStr("") /\ status = 400


\* An image payload: a data URI of an image type
IsImagePayload(x) == Len(x) >= 11 /\ SubSeq(x, 1, 11) = "data:image/"

\* C11: a non-empty payload that is not an image is rejected to the caller as
\* invalid input, and is not answered with a timetable.
C11_NonImageRejected ==
    (Responded /\ body.imageData.t = "string" /\ body.imageData.s # ""
        /\ ~IsImagePayload(body.imageData.s))
        => (status = 400 /\ result = Undefined)

\* C20: every accepted request eventually completes, the vision call being
\* bounded by a timeout of its caller.
C20_EventuallyResponds == (pc = "awaitVision") ~> (pc = "responded")


(***************************************************************************)
(* Properties of the heuristic line parser                                 *)
(***************************************************************************)
Parsing == ppc \in {"loop", "returned"}

\* The lines a text of Texts can hold, as splitLines gives them
PoolLines == {trim(l) : l \in LinePool} \ {""}

\* The time-range extractor finds a match in a line that is not dropped
ProducingLines == {l \in PoolLines : ~skipped(l) /\ match(l, timePattern).found}
Producing(line) == line \in ProducingLines

\* The lines visited so far that produce an entry, in order
Sources == SelectSeq(SubSeq(pLines, 1, pIdx), Producing)

\* What remains of a line after the removal of its fields
RemainderOf ==
    [l \in PoolLines |->
        trim(replace(replace(replace(l, timePattern), dayPattern), roomPattern))]
Remainder(line) == RemainderOf[line]

\* Weekday w stands as a whole word at position p of the line, in any casing
DayAt(line, w, p) ==
    /\ p + Len(w) - 1 <= Len(line)
    /\ toLowerCase(SubSeq(line, p, p + Len(w) - 1)) = toLowerCase(w)
    /\ ~IsWordAt(line, p - 1)
    /\ ~IsWordAt(line, p + Len(w))

DayPlaces(line) == {p \in 1..Len(line) : \E w \in WeekDays : DayAt(line, w, p)}

\* The canonical name of the first weekday of the line; Monday without one
ExpectedDayOf ==
    [l \in PoolLines |->
        IF DayPlaces(l) = {} THEN "Monday"
        ELSE LET p == CHOOSE q \in DayPlaces(l) : \A r \in DayPlaces(l) : q <= r
             IN  CHOOSE w \in WeekDays : DayAt(l, w, p)]
ExpectedDay(line) == ExpectedDayOf[line]

\* C12: a line in which the time-range extractor finds no match never
\* produces an entry: the entries are as many as the visited lines that are
\* not dropped and hold a time range, and "Room 101" alone yields none.
C12_NoTimeNoEntry ==
    Parsing =>
        /\ Len(pEntries) = Len(Sources)
        /\ (pLines = <<"Room 101">> => pEntries = <<>>)

C12_Witness ==
    /\ ppc = "returned"
    /\ pLines = <<"Room 101", "9:00-10:00 Physics">>
    /\ Len(pEntries) = 1

\* C13: a title is never empty: a line of which nothing remains after field
\* removal gets "Class N", N its entry's 1-based position in the batch.
C13_TitleSynthesis ==
    Parsing =>
        \A i \in 1..Len(pEntries) :
            /\ pEntries[i].title # ""
            /\ (i <= Len(Sources) /\ Remainder(Sources[i]) = "")
                   => pEntries[i].title = "Class " \o ToString(i)

C13_Witness ==
    /\ ppc = "returned"
    /\ pLines = <<"MONDAY 9:00-10:00", "MONDAY 9:00-10:00">>
    /\ Len(pEntries) = 2
    /\ pEntries[1].title = "Class 1"
    /\ pEntries[2].title = "Class 2"

\* C14: the day of an entry is the initial-capital form of the weekday found
\* as a whole word in its line, whatever its casing, and Monday without one;
\* it is always one of the seven canonical names.
C14_DayRecased ==
    Parsing =>
        \A i \in 1..Len(pEntries) :
            /\ pEntries[i].day \in WeekDays
            /\ i <= Len(Sources) => pEntries[i].day = ExpectedDay(Sources[i])

C14_Witness ==
    /\ ppc = "returned"
    /\ pLines = <<"MONDAY 9:00-10:00", "friday 13:00 to 14:30 Lab-3">>
    /\ Len(pEntries) = 2
    /\ pEntries[1].day = "Monday"
    /\ pEntries[2].day = "Friday"

\* C15: "Monday 09:00-10:30 Room 101 Calculus" yields exactly one entry:
\* Monday, 09:00 to 10:30, title Calculus, location Room 101.
C15_CalculusScenario ==
    (ppc = "returned" /\ pText = CalculusLine)
        => pEntries = <<Entry("Monday", "09:00", "10:30", "Calculus", "Room 101")>>

C15_Witness ==
    ppc = "returned" /\ pText = CalculusLine /\ Len(pEntries) = 1


(***************************************************************************)
(* Properties of concurrent requests                                       *)
(***************************************************************************)
\* The response of a request handled alone, from its own body and its own
\* vision outcome
Alone(b, v) == IF schemaParses(b) THEN respond(v) ELSE rejection

\* C16: under every interleaving each request's response depends only on its
\* own body and on the answer to its own vision call: it is the response the
\* request gets when handled alone.
C16_NoSharedState ==
    \A r \in RequestIds :
        reqs[r].pc = "responded"
            => /\ reqs[r].status = Alone(reqs[r].body, reqs[r].service).status
               /\ reqs[r].result = Alone(reqs[r].body, reqs[r].service).result

C16_Witness ==
    /\ reqs[1].pc = "responded" /\ reqs[2].pc = "responded"
    /\ reqs[1].body = reqs[2].body
    /\ reqs[1].vision.kind = "throws" /\ reqs[2].vision.kind = "object"
    /\ reqs[1].result = JArr(FallbackEntrySet)
    /\ reqs[2].result = JArr(<<ChemistryEntry>>)

Hints == {FieldAbsent, FieldBool(TRUE), FieldBool(FALSE)}

\* C17: two requests with the same image and the same collaborator behaviour
\* that differ only in the enhance-results hint (true, false or absent) get
\* identical responses.
C17_HintIgnored ==
    \A r, q \in RequestIds :
        (/\ reqs[r].pc = "responded" /\ reqs[q].pc = "responded"
         /\ reqs[r].body.imageData = reqs[q].body.imageData
         /\ reqs[r].body.enhanceResults \in Hints
         /\ reqs[q].body.enhanceResults \in Hints
         /\ reqs[r].service = reqs[q].service)
            => (reqs[r].status = reqs[q].status /\ reqs[r].result = reqs[q].result)

C17_Witness ==
    /\ reqs[1].pc = "responded" /\ reqs[2].pc = "responded"
    /\ reqs[1].body.imageData = reqs[2].body.imageData
    /\ reqs[1].body.enhanceResults = FieldAbsent
    /\ reqs[2].body.enhanceResults = FieldBool(FALSE)
    /\ reqs[1].service = reqs[2].service
    /\ reqs[1].status = 200 /\ reqs[2].status = 200
    /\ reqs[1].result = reqs[2].result

(***************************************************************************)
(* The order of the stages within one import                               *)
(***************************************************************************)
\* The vision stage of the import has ended and yielded no entries
VisionStageFailed(v) ==
    \/ v.kind \in {"throws", "nocontent", "badjson"}
    \/ v.kind = "object" /\ firstArrayFrom(v.obj, 1) = <<>>

\* C18: within one import the OCR engine call starts only after the vision
\* stage has failed or returned no entries: while the OCR call is in flight
\* the vision stage has ended that way, the vision call is not in flight with
\* it, and an import whose vision stage succeeded has no OCR call
C18_OcrOnlyAfterVisionFailed ==
    /\ ("ocr" \in up.inFlight) => VisionStageFailed(up.vision)
    /\ ~({"ocr", "vision"} \subseteq up.inFlight)
    /\ (up.vision.kind = "object" /\ ~VisionStageFailed(up.vision))
           => \A i \in 1..Len(up.calls) : up.calls[i] # "ocr"

(***************************************************************************)
(* Abandoned scans                                                         *)
(***************************************************************************)
\* C19: once cancelScan has run while the request of a processImage call was
\* in flight, the rest of that call discards what it receives: none of its
\* steps changes the scanner's state or invokes onScanComplete
C19_LateResultDiscarded ==
    [][\A i \in ScanIds :
          (scans[i].abandoned /\ scans'[i] # scans[i])
              => (sc' = sc /\ scans'[i].completed = Undefined)]_vars

\* C30: whenever a scan has ended (by success, an empty result, a failed or
\* rejected request, a thrown error or a cancel), the progress interval that
\* processImage started has been cleared: isScanning is never false while an
\* interval is still running
C30_TimerClearedWhenIdle ==
    ~sc.isScanning => \A i \in ScanIds : ~scans[i].timer

(***************************************************************************)
(* Properties of the field extractors                                      *)
(***************************************************************************)
\* The positions of the line that a match covers
Span(m) == IF m.found THEN m.from..m.to ELSE {}

\* The line without the characters at the positions in gone, from position i
RECURSIVE Without(_, _, _)
Without(line, gone, i) ==
    IF i > Len(line) THEN ""
    ELSE (IF i \in gone THEN "" ELSE Char(line, i)) \o Without(line, gone, i + 1)

\* The line without the three substrings its extractors match on it
TitleByRemovalOf ==
    [l \in PoolLines |->
        trim(Without(l, Span(match(l, timePattern)) \cup Span(match(l, dayPattern))
                           \cup Span(match(l, roomPattern)), 1))]

\* The substring of the line that the location extractor returns
LocationOf ==
    [l \in PoolLines |->
        IF match(l, roomPattern).found THEN Whole(l, match(l, roomPattern)) ELSE ""]

\* C21: the title of an entry is its line with exactly the three substrings
\* removed that the extractors match on that line (time range, day name and
\* the substring returned as location), trimmed ("Class N" when nothing is
\* left); the location removed is the location returned
C21_TitleIsLineMinusFields ==
    Parsing =>
        \A i \in 1..Len(pEntries) :
            i <= Len(Sources) =>
                /\ pEntries[i].location = LocationOf[Sources[i]]
                /\ pEntries[i].title =
                      IF TitleByRemovalOf[Sources[i]] = ""
                      THEN "Class " \o ToString(i)
                      ELSE TitleByRemovalOf[Sources[i]]

\* C22: every entry of the heuristic parser has a startTime and an endTime
\* that are valid 24-hour clock strings, ^[0-2]?[0-9]:[0-5][0-9]$
C22_ClockTimes ==
    Parsing =>
        \A i \in 1..Len(pEntries) :
            IsClock(pEntries[i].startTime) /\ IsClock(pEntries[i].endTime)

\* sub occurs in s at position p, letter case aside
OccursAt(s, sub, p) ==
    /\ p + Len(sub) - 1 <= Len(s)
    /\ toLowerCase(SubSeq(s, p, p + Len(sub) - 1)) = toLowerCase(sub)

Contains(s, sub) == \E p \in 1..Len(s) : OccursAt(s, sub, p)

\* The line is dropped before the extractors see it
Dropped(line) ==
    \/ Len(line) < 5
    \/ \E w \in {"header", "table", "schedule"} : Contains(line, w)

\* Two time tokens, each with an optional AM or PM, joined by one connector:
\* a hyphen, an en dash, an em dash or the word "to"
ConnectedTimes ==
    RSeq(<< TimeToken, Star(Space), AmPm, Star(Space),
            Alt(<<Lit("-"), Lit(EnDash), Lit(EmDash), Lit("to")>>), Star(Space),
            TimeToken, Star(Space), AmPm >>)

ConnectedLines == {l \in PoolLines : ~Dropped(l) /\ test(ConnectedTimes, l)}
Connected(line) == line \in ConnectedLines

\* C23: the time-range extractor matches a line if and only if the line holds
\* two time tokens joined by a hyphen, an en dash, an em dash or "to": the
\* lines that yield an entry are exactly the lines so connected, and tokens
\* separated by anything else ("ot", "o", "t", "too") yield none
C23_ConnectorOnly ==
    Parsing => Len(pEntries) = Len(SelectSeq(SubSeq(pLines, 1, pIdx), Connected))

\* s is one time token, \d{1,2}:\d{2}, and nothing else
IsToken(s) ==
    \E j \in 1..Len(M(TimeToken, s, 1, NoCaps)) :
        M(TimeToken, s, 1, NoCaps)[j].pos = Len(s) + 1

SuffixedLine == "2:00 PM - 3:00 PM Math"
PlainLine    == "2:00 - 3:00 Math"

\* C24: startTime and endTime are the two time tokens as they stand in the
\* line, without AM/PM conversion: each is a bare token that occurs in the
\* line, and "2:00 PM - 3:00 PM" yields 2:00 and 3:00, as the line without
\* the suffixes does
C24_TimesVerbatim ==
    Parsing =>
        \A i \in 1..Len(pEntries) :
            i <= Len(Sources) =>
                /\ IsToken(pEntries[i].startTime)
                /\ IsToken(pEntries[i].endTime)
                /\ \E p \in 1..Len(Sources[i]) :
                       OccursAt(Sources[i], pEntries[i].startTime, p)
                /\ \E p \in 1..Len(Sources[i]) :
                       OccursAt(Sources[i], pEntries[i].endTime, p)
                /\ Sources[i] \in {SuffixedLine, PlainLine}
                       => /\ pEntries[i].startTime = "2:00"
                          /\ pEntries[i].endTime = "3:00"

C24_Witness ==
    /\ ppc = "returned"
    /\ pLines = <<SuffixedLine, PlainLine>>
    /\ Len(pEntries) = 2
    /\ pEntries[1].startTime = pEntries[2].startTime
    /\ pEntries[1].endTime = pEntries[2].endTime

\* The segments of the text between line breaks that hold a character other
\* than white space
NonBlank(seg) == \E j \in 1..Len(seg) : Char(seg, j) \notin SpaceChars
NonBlankSegments == SelectSeq(split(pText, "\n"), NonBlank)

\* The lines that are not dropped and in which the extractor finds a time range
KeptLines == {l \in PoolLines : ~Dropped(l) /\ match(l, timePattern).found}
Kept(line) == line \in KeptLines

\* C25: the text is split into trimmed non-empty lines; a line shorter than 5
\* characters or holding "header", "table" or "schedule" in any casing is
\* dropped and yields no entry, even with a valid time range in it; all other
\* lines go to the extractors
C25_NoiseLinesDropped ==
    Parsing =>
        /\ Len(pLines) = Len(NonBlankSegments)
        /\ \A k \in 1..Len(pLines) :
              /\ pLines[k] # ""
              /\ Char(pLines[k], 1) \notin SpaceChars
              /\ Char(pLines[k], Len(pLines[k])) \notin SpaceChars
              /\ Contains(NonBlankSegments[k], pLines[k])
        /\ Len(pEntries) = Len(SelectSeq(SubSeq(pLines, 1, pIdx), Kept))

C25_Witness ==
    /\ ppc = "returned"
    /\ pLines = <<"SCHEDULE 9:00-10:00 Math", "9:00-10:00 Physics">>
    /\ Len(pEntries) = 1
    /\ pEntries[1].title = "Physics"

(***************************************************************************)
(* Properties of the batch                                                 *)
(***************************************************************************)
\* C26: the entries are in the order of the lines they come from, a line
\* gives at most one entry and the entries are never more than the non-empty
\* lines: entry i carries the times and the day of the i-th line that yields
\* an entry
C26_LineOrderKept ==
    Parsing =>
        /\ Len(pEntries) <= pIdx
        /\ pIdx <= Len(pLines)
        /\ Len(pLines) <= Len(NonBlankSegments)
        /\ Len(pEntries) <= Len(Sources)
        /\ \A i \in 1..Len(pEntries) :
              /\ Contains(Sources[i], pEntries[i].startTime)
              /\ Contains(Sources[i], pEntries[i].endTime)
              /\ pEntries[i].day = ExpectedDay(Sources[i])

C26_Witness ==
    /\ ppc = "returned"
    /\ pLines = <<"friday 13:00 to 14:30 Lab-3", "9:00-10:00 Physics">>
    /\ Len(pEntries) = 2
    /\ pEntries[1].startTime = "13:00"
    /\ pEntries[2].startTime = "9:00"

\* The lines that name no day, no place, and hold no colon
NoDayLines   == {l \in PoolLines : DayPlaces(l) = {}}
NoPlaceLines ==
    {l \in PoolLines : \A w \in {"room", "lab", "hall", "lecture"} : ~Contains(l, w)}
NoColonLines == {l \in PoolLines : ~Contains(l, ":")}

\* C27: the parser is total: a call under way can always take its next step
\* (the next line, or the return after the last one); a line without a day gets Monday and one without a
\* place the empty location; a text without any time range, the empty text
\* included, gives no entry
C27_Total ==
    Parsing =>
        /\ ppc = "loop" => (pIdx < Len(pLines) \/ pIdx = Len(pLines))
        /\ \A i \in 1..Len(pEntries) :
              i <= Len(Sources) =>
                  /\ Sources[i] \in NoDayLines => pEntries[i].day = "Monday"
                  /\ Sources[i] \in NoPlaceLines => pEntries[i].location = ""
        /\ (\A k \in 1..Len(pLines) : pLines[k] \in NoColonLines) => pEntries = <<>>

C27_Witness ==
    /\ ppc = "returned"
    /\ pText = "Room 101\nTue"
    /\ pEntries = <<>>

\* The time pattern whose AM/PM suffixes are whole words: (?:(?:AM|PM)\b)?
WholeSuffix == Opt(RSeq(<<Alt(<<Lit("am"), Lit("pm")>>), WordB>>))
WholeSuffixTimes ==
    RSeq(<< TimeToken, Star(Space), WholeSuffix, Star(Space),
            Plus(CSet({"-", EnDash, EmDash, "t", "o"})), Star(Space),
            TimeToken, Star(Space), WholeSuffix >>)

\* What remains of a line when the time range is removed with them
IntactTitleOf ==
    [l \in PoolLines |->
        trim(replace(replace(replace(l, WholeSuffixTimes), dayPattern), roomPattern))]

\* C28: the removal of the time range takes an AM/PM suffix only when it is a
\* word of its own: a title word that begins with "am" or "pm" right after
\* the end time stays whole in the title
C28_TitleWordIntact ==
    Parsing =>
        \A i \in 1..Len(pEntries) :
            i <= Len(Sources) =>
                pEntries[i].title =
                    IF IntactTitleOf[Sources[i]] = ""
                    THEN "Class " \o ToString(i)
                    ELSE IntactTitleOf[Sources[i]]

\* What the parser returns for each text
ParseOf(t) == parseOCRToTimetable(t)

\* The text up to its k-th line break, and the text after it
Segments == split(pText, "\n")
Before(k) == join(SubSeq(Segments, 1, k))
After(k)  == join(SubSeq(Segments, k + 1, Len(Segments)))

\* e is entry j of b moved behind n entries
Shifted(e, b, j, n) ==
    /\ e.day = b[j].day
    /\ e.startTime = b[j].startTime
    /\ e.endTime = b[j].endTime
    /\ e.location = b[j].location
    /\ e.title = IF b[j].title = "Class " \o ToString(j)
                 THEN "Class " \o ToString(n + j)
                 ELSE b[j].title

\* C29: the parser is compositional over lines: what it returns for A, a line
\* break and B is what it returns for A followed by what it returns for B,
\* the N of a synthesized "Class N" of B raised by the number of entries of A
C29_Compositional ==
    ppc = "returned" =>
        \A k \in 1..(Len(Segments) - 1) :
            LET a == ParseOf(Before(k))
                b == ParseOf(After(k))
            IN  /\ Len(pEntries) = Len(a) + Len(b)
                /\ SubSeq(pEntries, 1, Len(a)) = a
                /\ \A j \in 1..Len(b) : Shifted(pEntries[Len(a) + j], b, j, Len(a))

C29_Witness ==
    /\ ppc = "returned"
    /\ pText = "friday 13:00 to 14:30 Lab-3\nMONDAY 9:00-10:00"
    /\ Len(pEntries) = 2
    /\ pEntries[2].title = "Class 2"
    /\ ParseOf(After(1))[1].title = "Class 1"
====
